---- MODULE Spec2Model ----
(***************************************************************************)
(* Model of the SBC requirements solver (src/sbc_solver.js, class          *)
(* SBCSolver).  JavaScript values are records [t, v]: t is the type tag    *)
(* and v the payload.  A requirements object is a record of the keys the   *)
(* solver reads; a key that the object does not have holds Absent.         *)
(***************************************************************************)
EXTENDS Integers, Sequences, FiniteSets, TLC

VARIABLES pc, call, result, consoleOut, playerDatabase, allocated, history,
          document, cache, observers, mutationObservers, waits

\* the state of the solver and the state of a page with one DOMUtils instance
solverVars == <<pc, call, result, consoleOut, playerDatabase, allocated, history>>
domVars == <<document, cache, observers, mutationObservers, waits>>

vars == <<pc, call, result, consoleOut, playerDatabase, allocated, history,
          document, cache, observers, mutationObservers, waits>>

(***************************************************************************)
(* Bounds of the explored inputs.                                          *)
(***************************************************************************)
MaxPlayers == 12
MaxSquadLen == 3
Margin == 1
MinCostRating == 50
MaxCostRating == 95
MaxCalls == 3
MaxSolvers == 2
MaxWaits == 2
MaxRetries == 2

(***************************************************************************)
(* JavaScript values.                                                      *)
(***************************************************************************)
Absent == [t |-> "absent", v |-> 0]
Undefined == [t |-> "undefined", v |-> 0]
Null == [t |-> "null", v |-> 0]
Num(n) == [t |-> "number", v |-> n]
\* a non-empty numeric string, e.g. "2": v is the number it converts to
Str(n) == [t |-> "string", v |-> n]
AbsentList == [t |-> "absent", v |-> <<>>]
Arr(s) == [t |-> "array", v |-> s]

\* obj.key : a key the object lacks reads as undefined
Get(x) == IF x.t = "absent" THEN Undefined ELSE x
GetList(x) == IF x.t = "absent" THEN [t |-> "undefined", v |-> <<>>] ELSE x

\* ToBoolean: undefined, null, 0 and the empty array-less values are falsy;
\* a non-empty string and every array are truthy
Truthy(x) ==
    CASE x.t = "undefined" -> FALSE
      [] x.t = "null" -> FALSE
      [] x.t = "absent" -> FALSE
      [] x.t = "number" -> x.v # 0
      [] OTHER -> TRUE

\* a || d
Or(x, d) == IF Truthy(x) THEN x ELSE d

\* Math.round of the rational num / den (den > 0): nearest integer, ties up
MathRound(num, den) == (2 * num + den) \div (2 * den)

\* Math.ceil of the rational num / den (den > 0)
MathCeil(num, den) == -((-num) \div den)

Max(a, b) == IF a >= b THEN a ELSE b
Min(a, b) == IF a <= b THEN a ELSE b

RECURSIVE SumSeq(_)
SumSeq(s) == IF s = <<>> THEN 0 ELSE Head(s) + SumSeq(Tail(s))

(***************************************************************************)
(* constructor: the reference table of the solver.                         *)
(***************************************************************************)
constructor ==
    [leagues |-> <<"Premier League", "La Liga", "Serie A", "Bundesliga", "Ligue 1">>,
     nations |-> <<"England", "Spain", "Italy", "Germany", "France", "Brazil", "Argentina">>,
     rarityValues |-> [bronze |-> [min |-> 45, max |-> 64, cost |-> 150],
                       silver |-> [min |-> 65, max |-> 74, cost |-> 400],
                       gold |-> [min |-> 75, max |-> 99, cost |-> 800]]]

(***************************************************************************)
(* Arguments of solveSBCRequirements.                                      *)
(***************************************************************************)
EmptyObject ==
    [players |-> Absent, chemistry |-> Absent, rating |-> Absent, maxCost |-> Absent,
     leagues |-> AbsentList, nations |-> AbsentList, clubs |-> AbsentList,
     rarities |-> AbsentList, positions |-> Absent,
     maxSameLeague |-> Absent, maxSameNation |-> Absent, maxSameClub |-> Absent,
     minDifferentLeagues |-> Absent, minDifferentNations |-> Absent]

\* kind: what the argument is; o: its keys (none unless it is a plain object)
Value(kind) == [kind |-> kind, o |-> EmptyObject]
Object(o) == [kind |-> "object", o |-> o]

\* typeof x
TypeOf(x) == IF x.kind \in {"null", "array", "object"} THEN "object" ELSE x.kind

\* !x for an argument: null, undefined (0, "" and false are not drawn)
Falsy(x) == x.kind \in {"null", "undefined"}

(***************************************************************************)
(* validateRequirements                                                    *)
(***************************************************************************)
\* variant: tests the value stored under each key instead of the key
validateRequirementsByValue(requirements) ==
    IF Falsy(requirements) \/ TypeOf(requirements) # "object"
    THEN FALSE
    ELSE \A field \in {"players", "chemistry"} : Truthy(Get(requirements.o[field]))

validateRequirements(requirements) ==
    IF Falsy(requirements) \/ TypeOf(requirements) # "object"
    THEN FALSE
    ELSE \A field \in {"players", "chemistry"} : requirements.o[field].t # "absent"

(***************************************************************************)
(* parseRequirements                                                       *)
(***************************************************************************)
\* variant: another default for the minimum rating
parseRequirementsRating70(requirements) ==
    LET r == requirements.o
    IN [squadSize |-> Or(Get(r.players), Num(11)),
        minChemistry |-> Or(Get(r.chemistry), Num(100)),
        minRating |-> Or(Get(r.rating), Num(70)),
        maxCost |-> Or(Get(r.maxCost), Num(50000)),
        constraints |-> [leagues |-> Or(GetList(r.leagues), Arr(<<>>)),
                         nations |-> Or(GetList(r.nations), Arr(<<>>)),
                         clubs |-> Or(GetList(r.clubs), Arr(<<>>)),
                         rarities |-> Or(GetList(r.rarities), Arr(<<>>)),
                         positions |-> Or(Get(r.positions), [t |-> "object", v |-> 0])],
        special |-> [maxSameLeague |-> Or(Get(r.maxSameLeague), Null),
                     maxSameNation |-> Or(Get(r.maxSameNation), Null),
                     maxSameClub |-> Or(Get(r.maxSameClub), Null),
                     minDifferentLeagues |-> Or(Get(r.minDifferentLeagues), Null),
                     minDifferentNations |-> Or(Get(r.minDifferentNations), Null)]]

\* variant: maxSameLeague is copied without its || null
parseRequirementsNoNull(requirements) ==
    LET r == requirements.o
    IN [squadSize |-> Or(Get(r.players), Num(11)),
        minChemistry |-> Or(Get(r.chemistry), Num(100)),
        minRating |-> Or(Get(r.rating), Num(75)),
        maxCost |-> Or(Get(r.maxCost), Num(50000)),
        constraints |-> [leagues |-> Or(GetList(r.leagues), Arr(<<>>)),
                         nations |-> Or(GetList(r.nations), Arr(<<>>)),
                         clubs |-> Or(GetList(r.clubs), Arr(<<>>)),
                         rarities |-> Or(GetList(r.rarities), Arr(<<>>)),
                         positions |-> Or(Get(r.positions), [t |-> "object", v |-> 0])],
        special |-> [maxSameLeague |-> Get(r.maxSameLeague),
                     maxSameNation |-> Or(Get(r.maxSameNation), Null),
                     maxSameClub |-> Or(Get(r.maxSameClub), Null),
                     minDifferentLeagues |-> Or(Get(r.minDifferentLeagues), Null),
                     minDifferentNations |-> Or(Get(r.minDifferentNations), Null)]]

parseRequirements(requirements) ==
    LET r == requirements.o
    IN [squadSize |-> Or(Get(r.players), Num(11)),
        minChemistry |-> Or(Get(r.chemistry), Num(100)),
        minRating |-> Or(Get(r.rating), Num(75)),
        maxCost |-> Or(Get(r.maxCost), Num(50000)),
        constraints |-> [leagues |-> Or(GetList(r.leagues), Arr(<<>>)),
                         nations |-> Or(GetList(r.nations), Arr(<<>>)),
                         clubs |-> Or(GetList(r.clubs), Arr(<<>>)),
                         rarities |-> Or(GetList(r.rarities), Arr(<<>>)),
                         positions |-> Or(Get(r.positions), [t |-> "object", v |-> 0])],
        special |-> [maxSameLeague |-> Or(Get(r.maxSameLeague), Null),
                     maxSameNation |-> Or(Get(r.maxSameNation), Null),
                     maxSameClub |-> Or(Get(r.maxSameClub), Null),
                     minDifferentLeagues |-> Or(Get(r.minDifferentLeagues), Null),
                     minDifferentNations |-> Or(Get(r.minDifferentNations), Null)]]

(***************************************************************************)
(* selectOptimalFormation: always the 4-3-3 entry.                         *)
(***************************************************************************)
selectOptimalFormation(parsedReqs) ==
    LET formations ==
          [f433 |-> [positions |-> <<"GK", "LB", "CB", "CB", "RB", "CM", "CM", "CM", "LW", "ST", "RW">>,
                     chemistryBonus |-> 5],
           f442 |-> [positions |-> <<"GK", "LB", "CB", "CB", "RB", "LM", "CM", "CM", "RM", "ST", "ST">>,
                     chemistryBonus |-> 3],
           f352 |-> [positions |-> <<"GK", "CB", "CB", "CB", "LM", "CM", "CM", "CM", "RM", "ST", "ST">>,
                     chemistryBonus |-> 4]]
    IN formations.f433

(***************************************************************************)
(* calculateRequiredRating                                                 *)
(***************************************************************************)
Ratings(squad) == [i \in 1..Len(squad) |-> squad[i].rating]

\* variant: Math.floor in place of Math.ceil
calculateRequiredRatingFloor(parsedReqs, currentSquad) ==
    IF Len(currentSquad) = 0
    THEN parsedReqs.minRating.v
    ELSE LET currentTotal == SumSeq(Ratings(currentSquad))
             remainingSlots == parsedReqs.squadSize.v - Len(currentSquad)
             requiredTotal == parsedReqs.minRating.v * parsedReqs.squadSize.v
             requiredForRemaining == requiredTotal - currentTotal
         IN Max(parsedReqs.minRating.v - 5, requiredForRemaining \div remainingSlots)

\* variant: Math.min in place of Math.max
calculateRequiredRatingMin(parsedReqs, currentSquad) ==
    IF Len(currentSquad) = 0
    THEN parsedReqs.minRating.v
    ELSE LET currentTotal == SumSeq(Ratings(currentSquad))
             remainingSlots == parsedReqs.squadSize.v - Len(currentSquad)
             requiredTotal == parsedReqs.minRating.v * parsedReqs.squadSize.v
             requiredForRemaining == requiredTotal - currentTotal
         IN Min(parsedReqs.minRating.v - 5, MathCeil(requiredForRemaining, remainingSlots))

calculateRequiredRating(parsedReqs, currentSquad) ==
    IF Len(currentSquad) = 0
    THEN parsedReqs.minRating.v
    ELSE LET currentTotal == SumSeq(Ratings(currentSquad))
             remainingSlots == parsedReqs.squadSize.v - Len(currentSquad)
             requiredTotal == parsedReqs.minRating.v * parsedReqs.squadSize.v
             requiredForRemaining == requiredTotal - currentTotal
         IN Max(parsedReqs.minRating.v - 5, MathCeil(requiredForRemaining, remainingSlots))

(***************************************************************************)
(* selectOptimalLeague / selectOptimalNation: the counts object and the    *)
(* reduce over its keys, which are in order of first appearance.           *)
(***************************************************************************)
RECURSIVE KeysInOrder(_, _, _)
KeysInOrder(squad, attr, seen) ==
    IF squad = <<>> THEN <<>>
    ELSE IF Head(squad)[attr] \in seen
         THEN KeysInOrder(Tail(squad), attr, seen)
         ELSE <<Head(squad)[attr]>> \o
              KeysInOrder(Tail(squad), attr, seen \cup {Head(squad)[attr]})

Count(squad, attr, val) == Cardinality({i \in 1..Len(squad) : squad[i][attr] = val})

\* counts[a] > counts[b]; counts[a] is undefined when a is not a key, and
\* undefined > n is false
\* variant: the comparison of the reduce is reversed
CountLess(squad, attr, a, b) ==
    /\ Count(squad, attr, a) > 0
    /\ Count(squad, attr, a) < Count(squad, attr, b)

CountGreater(squad, attr, a, b) ==
    /\ Count(squad, attr, a) > 0
    /\ Count(squad, attr, a) > Count(squad, attr, b)

RECURSIVE ReduceMostCommon(_, _, _, _)
ReduceMostCommon(keys, squad, attr, a) ==
    IF keys = <<>> THEN a
    ELSE ReduceMostCommon(Tail(keys), squad, attr,
                          IF CountGreater(squad, attr, a, Head(keys)) THEN a ELSE Head(keys))

\* variant: the league constraint is not consulted
selectOptimalLeagueUnconstrained(parsedReqs, currentSquad) ==
    ReduceMostCommon(KeysInOrder(currentSquad, "league", {}), currentSquad,
                     "league", playerDatabase.leagues[1])

selectOptimalLeague(parsedReqs, currentSquad) ==
    LET constraints == parsedReqs.constraints
    IN IF Len(constraints.leagues.v) > 0
       THEN constraints.leagues.v[1]
       ELSE ReduceMostCommon(KeysInOrder(currentSquad, "league", {}), currentSquad,
                             "league", playerDatabase.leagues[1])

selectOptimalNation(parsedReqs, currentSquad) ==
    LET constraints == parsedReqs.constraints
    IN IF Len(constraints.nations.v) > 0
       THEN constraints.nations.v[1]
       ELSE ReduceMostCommon(KeysInOrder(currentSquad, "nation", {}), currentSquad,
                             "nation", playerDatabase.nations[1])

(***************************************************************************)
(* selectOptimalClub / selectOptimalRarity                                 *)
(***************************************************************************)
\* variant: the club is chosen by frequency, as the league and the nation
selectOptimalClubMostCommon(parsedReqs, currentSquad) ==
    LET constraints == parsedReqs.constraints
    IN IF Len(constraints.clubs.v) > 0
       THEN constraints.clubs.v[1]
       ELSE ReduceMostCommon(KeysInOrder(currentSquad, "club", {}), currentSquad,
                             "club", "Manchester City")

selectOptimalClub(parsedReqs, currentSquad) ==
    LET constraints == parsedReqs.constraints
    IN IF Len(constraints.clubs.v) > 0
       THEN constraints.clubs.v[1]
       ELSE "Manchester City"

\* variant: the rarity constraint is not consulted
selectOptimalRarityByRating(parsedReqs) ==
    IF parsedReqs.minRating.v >= 85 THEN "gold"
    ELSE IF parsedReqs.minRating.v >= 75 THEN "silver"
    ELSE "bronze"

\* variant: the gold threshold is exclusive
selectOptimalRarityStrict(parsedReqs) ==
    LET constraints == parsedReqs.constraints
    IN IF Len(constraints.rarities.v) > 0
       THEN constraints.rarities.v[1]
       ELSE IF parsedReqs.minRating.v > 85 THEN "gold"
       ELSE IF parsedReqs.minRating.v >= 75 THEN "silver"
       ELSE "bronze"

selectOptimalRarity(parsedReqs) ==
    LET constraints == parsedReqs.constraints
    IN IF Len(constraints.rarities.v) > 0
       THEN constraints.rarities.v[1]
       ELSE IF parsedReqs.minRating.v >= 85 THEN "gold"
       ELSE IF parsedReqs.minRating.v >= 75 THEN "silver"
       ELSE "bronze"

(***************************************************************************)
(* estimatePlayerCost.  The multipliers are tenths: 1.2 is 12.  The cost   *)
(* is base * max(1, (rating - 70) / 10) * multiplier, rounded.             *)
(***************************************************************************)
\* variant: the multipliers of GK and ST are exchanged
positionMultipliersExchanged ==
    [GK |-> 13, ST |-> 12, CAM |-> 12, CM |-> 11, CB |-> 10, LB |-> 10, RB |-> 10]

positionMultipliers ==
    [GK |-> 12, ST |-> 13, CAM |-> 12, CM |-> 11, CB |-> 10, LB |-> 10, RB |-> 10]

\* variant: the operands of the rating difference are exchanged
estimatePlayerCostSwapped(player) ==
    LET baseRarity == IF player.rarity \in DOMAIN playerDatabase.rarityValues
                      THEN playerDatabase.rarityValues[player.rarity]
                      ELSE playerDatabase.rarityValues.bronze
        ratingMultiplier == Max(10, 70 - player.rating)
        positionMultiplier == IF player.position \in DOMAIN positionMultipliers
                              THEN positionMultipliers[player.position]
                              ELSE 10
    IN MathRound(baseRarity.cost * ratingMultiplier * positionMultiplier, 100)

\* variant: the rating difference is not divided by 10
estimatePlayerCostNoTenth(player) ==
    LET baseRarity == IF player.rarity \in DOMAIN playerDatabase.rarityValues
                      THEN playerDatabase.rarityValues[player.rarity]
                      ELSE playerDatabase.rarityValues.bronze
        ratingMultiplier == Max(10, 10 * (player.rating - 70))
        positionMultiplier == IF player.position \in DOMAIN positionMultipliers
                              THEN positionMultipliers[player.position]
                              ELSE 10
    IN MathRound(baseRarity.cost * ratingMultiplier * positionMultiplier, 100)

estimatePlayerCost(player) ==
    LET baseRarity == IF player.rarity \in DOMAIN playerDatabase.rarityValues
                      THEN playerDatabase.rarityValues[player.rarity]
                      ELSE playerDatabase.rarityValues.bronze
        \* ratingMultiplier, in tenths
        ratingMultiplier == Max(10, player.rating - 70)
        positionMultiplier == IF player.position \in DOMAIN positionMultipliers
                              THEN positionMultipliers[player.position]
                              ELSE 10
    IN MathRound(baseRarity.cost * ratingMultiplier * positionMultiplier, 100)

(***************************************************************************)
(* findOptimalPlayer                                                       *)
(***************************************************************************)
findOptimalPlayer(position, parsedReqs, currentSquad) ==
    LET player == [position |-> position,
                   rating |-> calculateRequiredRating(parsedReqs, currentSquad),
                   league |-> selectOptimalLeague(parsedReqs, currentSquad),
                   nation |-> selectOptimalNation(parsedReqs, currentSquad),
                   club |-> selectOptimalClub(parsedReqs, currentSquad),
                   rarity |-> selectOptimalRarity(parsedReqs),
                   cost |-> 0,
                   chemistry |-> 0]
    IN [player EXCEPT !.cost = estimatePlayerCost(player)]

(***************************************************************************)
(* calculateChemistry: sets every player's chemistry and returns the       *)
(* total; the model returns both.                                          *)
(***************************************************************************)
\* squad.filter(p => p !== player && p[attr] === player[attr]).length
Links(squad, i, attr) ==
    Cardinality({j \in 1..Len(squad) : j # i /\ squad[j][attr] = squad[i][attr]})

\* variant: no clamp
ClampChemistryNone(playerChemistry) == playerChemistry

ClampChemistry(playerChemistry) == Min(playerChemistry, 10)

\* variant: the 10 points for the position are missing
PlayerChemistryNoBase(squad, i) ==
    LET leagueLinks == Links(squad, i, "league")
        nationLinks == Links(squad, i, "nation")
        clubLinks == Links(squad, i, "club")
        playerChemistry == Min(leagueLinks * 2, 8) + Min(nationLinks * 1, 6)
                              + Min(clubLinks * 3, 12)
    IN ClampChemistry(playerChemistry)

PlayerChemistry(squad, i) ==
    LET leagueLinks == Links(squad, i, "league")
        nationLinks == Links(squad, i, "nation")
        clubLinks == Links(squad, i, "club")
        playerChemistry == 10 + Min(leagueLinks * 2, 8) + Min(nationLinks * 1, 6)
                              + Min(clubLinks * 3, 12)
    IN ClampChemistry(playerChemistry)

calculateChemistry(squad, parsedReqs) ==
    LET chem == [i \in 1..Len(squad) |-> PlayerChemistry(squad, i)]
    IN [squad |-> [i \in 1..Len(squad) |-> [squad[i] EXCEPT !.chemistry = chem[i]]],
        total |-> MathRound(SumSeq(chem), 1)]

(***************************************************************************)
(* calculateSquadRating                                                    *)
(***************************************************************************)
\* variant: Math.floor in place of Math.round
calculateSquadRatingFloor(squad) ==
    IF Len(squad) = 0 THEN 0
    ELSE SumSeq(Ratings(squad)) \div Len(squad)

calculateSquadRating(squad) ==
    IF Len(squad) = 0 THEN 0
    ELSE LET totalRating == SumSeq(Ratings(squad))
         IN MathRound(totalRating, Len(squad))

(***************************************************************************)
(* generateSolution                                                        *)
(***************************************************************************)
RECURSIVE FillPositions(_, _, _, _)
FillPositions(i, parsedReqs, formation, solution) ==
    IF ~(i < parsedReqs.squadSize.v) THEN solution
    ELSE LET position == IF i + 1 <= Len(formation.positions)
                         THEN formation.positions[i + 1] ELSE "SUB"
             playerSuggestion == findOptimalPlayer(position, parsedReqs, solution.squad)
         IN FillPositions(i + 1, parsedReqs, formation,
                          [solution EXCEPT !.squad = Append(@, playerSuggestion),
                                           !.totalCost = @ + playerSuggestion.cost])

generateSolution(parsedReqs) ==
    LET formation == selectOptimalFormation(parsedReqs)
        solution == [squad |-> <<>>, totalCost |-> 0, totalChemistry |-> 0,
                     totalRating |-> 0, strategy |-> <<>>, warnings |-> <<>>,
                     formation |-> formation]
        filled == FillPositions(0, parsedReqs, formation, solution)
        chem == calculateChemistry(filled.squad, parsedReqs)
    IN [filled EXCEPT !.squad = chem.squad,
                      !.totalChemistry = chem.total,
                      !.totalRating = calculateSquadRating(chem.squad)]

(***************************************************************************)
(* checkRequirements                                                       *)
(***************************************************************************)
\* a === b for a number a
StrictEquals(a, b) == b.t = "number" /\ a = b.v

\* variant: the budget comparison is strict
checkRequirementsStrictCost(solution, parsedReqs) ==
    LET checks == [chemistry |-> solution.totalChemistry >= parsedReqs.minChemistry.v,
                   rating |-> solution.totalRating >= parsedReqs.minRating.v,
                   cost |-> solution.totalCost < parsedReqs.maxCost.v,
                   squadSize |-> StrictEquals(Len(solution.squad), parsedReqs.squadSize)]
    IN [success |-> \A k \in DOMAIN checks : checks[k], checks |-> checks]

checkRequirements(solution, parsedReqs) ==
    LET checks == [chemistry |-> solution.totalChemistry >= parsedReqs.minChemistry.v,
                   rating |-> solution.totalRating >= parsedReqs.minRating.v,
                   cost |-> solution.totalCost <= parsedReqs.maxCost.v,
                   squadSize |-> StrictEquals(Len(solution.squad), parsedReqs.squadSize)]
    IN [success |-> \A k \in DOMAIN checks : checks[k], checks |-> checks]

(***************************************************************************)
(* optimizeSolution.  A message is its template and the numbers put in it. *)
(***************************************************************************)
Msg(text, args) == [text |-> text, args |-> args]

\* variant: the three fixed tips are pushed after the conditional ones
optimizeSolutionTipsLast(solution, parsedReqs) ==
    LET meetsRequirements == checkRequirements(solution, parsedReqs)
        s1 == IF ~meetsRequirements.success
              THEN [solution EXCEPT
                      !.warnings = Append(@, Msg("Solution does not meet all requirements", <<>>)),
                      !.strategy = Append(@, Msg("Consider increasing budget or relaxing constraints", <<>>))]
              ELSE solution
        s2 == s1
        s3 == IF s2.totalCost > parsedReqs.maxCost.v
              THEN [s2 EXCEPT
                      !.strategy = Append(@, Msg("Reduce player ratings to lower cost", <<>>)),
                      !.warnings = Append(@, Msg("Solution exceeds budget by ${} coins",
                                                 <<s2.totalCost - parsedReqs.maxCost.v>>))]
              ELSE s2
        s4 == IF s3.totalChemistry < parsedReqs.minChemistry.v
              THEN [s3 EXCEPT
                      !.strategy = Append(@, Msg("Focus on same league/nation links", <<>>)),
                      !.warnings = Append(@, Msg("Chemistry ${} below required ${}",
                                                 <<s3.totalChemistry, parsedReqs.minChemistry.v>>))]
              ELSE s3
    IN [s4 EXCEPT !.strategy = @ \o
          <<Msg("Use loyalty glitch for +1 chemistry per player", <<>>),
            Msg("Consider position change cards if needed", <<>>),
            Msg("Check market for price fluctuations", <<>>)>>]

\* variant: the chemistry comparison is inclusive
optimizeSolutionChemistryInclusive(solution, parsedReqs) ==
    LET meetsRequirements == checkRequirements(solution, parsedReqs)
        s1 == IF ~meetsRequirements.success
              THEN [solution EXCEPT
                      !.warnings = Append(@, Msg("Solution does not meet all requirements", <<>>)),
                      !.strategy = Append(@, Msg("Consider increasing budget or relaxing constraints", <<>>))]
              ELSE solution
        s2 == [s1 EXCEPT !.strategy = @ \o
                 <<Msg("Use loyalty glitch for +1 chemistry per player", <<>>),
                   Msg("Consider position change cards if needed", <<>>),
                   Msg("Check market for price fluctuations", <<>>)>>]
        s3 == IF s2.totalCost > parsedReqs.maxCost.v
              THEN [s2 EXCEPT
                      !.strategy = Append(@, Msg("Reduce player ratings to lower cost", <<>>)),
                      !.warnings = Append(@, Msg("Solution exceeds budget by ${} coins",
                                                 <<s2.totalCost - parsedReqs.maxCost.v>>))]
              ELSE s2
        s4 == IF s3.totalChemistry <= parsedReqs.minChemistry.v
              THEN [s3 EXCEPT
                      !.strategy = Append(@, Msg("Focus on same league/nation links", <<>>)),
                      !.warnings = Append(@, Msg("Chemistry ${} below required ${}",
                                                 <<s3.totalChemistry, parsedReqs.minChemistry.v>>))]
              ELSE s3
    IN s4

\* variant: no general warning when the requirements are not met
optimizeSolutionSpecificOnly(solution, parsedReqs) ==
    LET meetsRequirements == checkRequirements(solution, parsedReqs)
        s1 == IF ~meetsRequirements.success
              THEN [solution EXCEPT
                      !.strategy = Append(@, Msg("Consider increasing budget or relaxing constraints", <<>>))]
              ELSE solution
        s2 == [s1 EXCEPT !.strategy = @ \o
                 <<Msg("Use loyalty glitch for +1 chemistry per player", <<>>),
                   Msg("Consider position change cards if needed", <<>>),
                   Msg("Check market for price fluctuations", <<>>)>>]
        s3 == IF s2.totalCost > parsedReqs.maxCost.v
              THEN [s2 EXCEPT
                      !.strategy = Append(@, Msg("Reduce player ratings to lower cost", <<>>)),
                      !.warnings = Append(@, Msg("Solution exceeds budget by ${} coins",
                                                 <<s2.totalCost - parsedReqs.maxCost.v>>))]
              ELSE s2
        s4 == IF s3.totalChemistry < parsedReqs.minChemistry.v
              THEN [s3 EXCEPT
                      !.strategy = Append(@, Msg("Focus on same league/nation links", <<>>)),
                      !.warnings = Append(@, Msg("Chemistry ${} below required ${}",
                                                 <<s3.totalChemistry, parsedReqs.minChemistry.v>>))]
              ELSE s3
    IN s4

optimizeSolution(solution, parsedReqs) ==
    LET meetsRequirements == checkRequirements(solution, parsedReqs)
        s1 == IF ~meetsRequirements.success
              THEN [solution EXCEPT
                      !.warnings = Append(@, Msg("Solution does not meet all requirements", <<>>)),
                      !.strategy = Append(@, Msg("Consider increasing budget or relaxing constraints", <<>>))]
              ELSE solution
        s2 == [s1 EXCEPT !.strategy = @ \o
                 <<Msg("Use loyalty glitch for +1 chemistry per player", <<>>),
                   Msg("Consider position change cards if needed", <<>>),
                   Msg("Check market for price fluctuations", <<>>)>>]
        s3 == IF s2.totalCost > parsedReqs.maxCost.v
              THEN [s2 EXCEPT
                      !.strategy = Append(@, Msg("Reduce player ratings to lower cost", <<>>)),
                      !.warnings = Append(@, Msg("Solution exceeds budget by ${} coins",
                                                 <<s2.totalCost - parsedReqs.maxCost.v>>))]
              ELSE s2
        s4 == IF s3.totalChemistry < parsedReqs.minChemistry.v
              THEN [s3 EXCEPT
                      !.strategy = Append(@, Msg("Focus on same league/nation links", <<>>)),
                      !.warnings = Append(@, Msg("Chemistry ${} below required ${}",
                                                 <<s3.totalChemistry, parsedReqs.minChemistry.v>>))]
              ELSE s3
    IN s4

(***************************************************************************)
(* solveSBCRequirements: the try block and its catch.  An outcome is       *)
(* [kind, val, console]: kind is "return" or "throw" (an exception that    *)
(* leaves the method), console the lines written.                          *)
(***************************************************************************)
\* variant: no catch, the exception leaves the method
CatchNothing(message, console) ==
    [kind |-> "throw", val |-> [message |-> message], console |-> console]

Catch(message, console) ==
    [kind |-> "return",
     val |-> [error |-> message, success |-> FALSE],
     console |-> Append(console, "error: Error solving SBC requirements")]

solveSBCRequirements(sbcRequirements) ==
    LET console == <<"log: Analyzing SBC Requirements">>
    IN IF ~validateRequirements(sbcRequirements)
       THEN Catch("Invalid SBC requirements provided", console)
       ELSE LET parsedReqs == parseRequirements(sbcRequirements)
                solution == generateSolution(parsedReqs)
                optimizedSolution == optimizeSolution(solution, parsedReqs)
            IN [kind |-> "return",
                val |-> optimizedSolution,
                console |-> Append(console, "log: SBC Solution Generated")]

(***************************************************************************)
(* quickSolve.  commonSBCs[sbcType] is a property read: a name that is not *)
(* a preset but is a property every object inherits reads as that          *)
(* inherited value, not as undefined.                                      *)
(***************************************************************************)
Preset(players, chemistry, rating, maxCost, rarities) ==
    [EmptyObject EXCEPT !.players = Num(players), !.chemistry = Num(chemistry),
                        !.rating = Num(rating), !.maxCost = Num(maxCost),
                        !.rarities = rarities]

commonSBCs ==
    ("daily_bronze" :> Preset(11, 95, 65, 5000, Arr(<<"bronze">>))) @@
    ("daily_silver" :> Preset(11, 95, 70, 8000, Arr(<<"silver">>))) @@
    ("daily_gold" :> Preset(11, 95, 75, 12000, Arr(<<"gold">>))) @@
    ("82_plus_pick" :> Preset(11, 95, 82, 15000, AbsentList)) @@
    ("84_plus_upgrade" :> Preset(11, 95, 84, 25000, AbsentList))

InheritedFunctions == {"constructor", "toString", "valueOf", "hasOwnProperty"}

ReadPreset(sbcType) ==
    IF sbcType \in DOMAIN commonSBCs THEN Object(commonSBCs[sbcType])
    ELSE IF sbcType \in InheritedFunctions THEN Value("function")
    ELSE IF sbcType = "__proto__" THEN Object(EmptyObject)
    ELSE Value("undefined")

quickSolve(sbcType) ==
    LET requirements == ReadPreset(sbcType)
    IN IF Falsy(requirements)
       THEN [kind |-> "return",
             val |-> [error |-> "Unknown SBC type: " \o sbcType, success |-> FALSE],
             console |-> <<>>]
       ELSE solveSBCRequirements(requirements)

(***************************************************************************)
(* The inputs explored.                                                    *)
(***************************************************************************)
PlayersValues ==
    {Absent, Undefined, Null, Str(2)}
      \cup {Num(n) : n \in -1..MaxPlayers}
ChemistryValues == {Absent, Null, Num(0), Num(10), Num(95), Num(120)}
RatingValues == {Absent, Num(0), Num(65), Num(82), Num(85)}
MaxCostValues == {Absent, Num(400), Num(5000)}
LeaguesValues == {AbsentList, Arr(<<"La Liga", "Serie A">>)}
NationsValues == {AbsentList, Arr(<<"Spain">>)}
ClubsValues == {AbsentList, Arr(<<"Arsenal">>)}
RaritiesValues == {AbsentList, Arr(<<"gold">>), Arr(<<"rare">>)}

Objects ==
    {[EmptyObject EXCEPT !.players = p, !.chemistry = c, !.rating = r, !.maxCost = m,
                         !.leagues = l, !.nations = n, !.clubs = k, !.rarities = q] :
       p \in PlayersValues, c \in ChemistryValues, r \in RatingValues,
       m \in MaxCostValues, l \in LeaguesValues, n \in NationsValues,
       k \in ClubsValues, q \in RaritiesValues}

Arguments ==
    {Value(kind) : kind \in {"null", "undefined", "number", "string", "boolean",
                             "function", "array"}}
      \cup {Object(o) : o \in Objects}

\* squads handed directly to calculateSquadRating and checkRequirements
RatingSamples == {-3, 70, 71, 74, 99}

PlayerRated(r) ==
    [position |-> "CM", rating |-> r, league |-> "Premier League", nation |-> "England",
     club |-> "Manchester City", rarity |-> "silver", cost |-> 440, chemistry |-> 10]

Squads ==
    UNION {{[i \in 1..n |-> PlayerRated(rs[i])] : rs \in [1..n -> RatingSamples]} :
             n \in 0..MaxSquadLen}

\* normalized requirements and solutions around each of their boundaries
CheckedRequirements ==
    {parseRequirements(Object([EmptyObject EXCEPT !.players = Num(n), !.chemistry = Num(10),
                                                  !.maxCost = m])) :
       n \in 1..2, m \in {Absent, Num(400)}}

Near(b) == (b - Margin)..(b + Margin)

CheckedSolutions(parsedReqs) ==
    {[squad |-> [i \in 1..n |-> PlayerRated(r)], totalCost |-> c, totalChemistry |-> h,
      totalRating |-> r, strategy |-> <<>>, warnings |-> <<>>,
      formation |-> selectOptimalFormation(parsedReqs)] :
       n \in 0..MaxSquadLen, c \in Near(parsedReqs.maxCost.v),
       h \in Near(parsedReqs.minChemistry.v), r \in Near(parsedReqs.minRating.v)}

\* players handed directly to estimatePlayerCost
CostedPlayers ==
    {[PlayerRated(r) EXCEPT !.rarity = q, !.position = p, !.cost = 0, !.chemistry = 0] :
       r \in MinCostRating..MaxCostRating,
       q \in {"bronze", "silver", "gold", "rare"},
       p \in {"GK", "ST", "CAM", "CM", "CB", "LW", "SUB"}}

\* accepted objects handed directly to parseRequirements: every optional
\* key absent or supplied
LimitValues == {Absent, Num(3)}

ParsedObjects ==
    {[EmptyObject EXCEPT !.players = Num(1), !.chemistry = h,
                         !.rating = r, !.maxCost = m,
                         !.leagues = l, !.nations = n, !.clubs = k, !.rarities = q,
                         !.maxSameLeague = a, !.maxSameNation = b, !.maxSameClub = c,
                         !.minDifferentLeagues = d, !.minDifferentNations = e] :
       h \in {Num(0), Num(10)},
       r \in {Absent, Num(82)}, m \in {Absent, Num(400)},
       l \in LeaguesValues, n \in NationsValues, k \in ClubsValues,
       q \in {AbsentList, Arr(<<"gold">>)},
       a \in LimitValues, b \in LimitValues, c \in LimitValues,
       d \in LimitValues, e \in LimitValues}

\* normalized requirements and partial squads (fewer players than the squad
\* size) handed directly to the per-slot selectors
SlotRequirements ==
    {parseRequirements(Object([EmptyObject EXCEPT !.players = Num(n), !.chemistry = Num(10),
                                                  !.rating = r])) :
       n \in 1..(MaxSquadLen + 1), r \in {Absent, Num(82)}}

PartialSquads(parsedReqs) == {squad \in Squads : Len(squad) < parsedReqs.squadSize.v}

\* normalized requirements and squads handed directly to selectOptimalLeague,
\* selectOptimalNation and selectOptimalClub
SelectRequirements ==
    {parseRequirements(Object([EmptyObject EXCEPT !.players = Num(MaxSquadLen + 1),
                                                  !.chemistry = Num(10), !.leagues = l,
                                                  !.nations = n, !.clubs = k])) :
       l \in LeaguesValues \cup {Arr(<<>>)}, n \in NationsValues, k \in ClubsValues}

SquadsWith(attr, values) ==
    UNION {{[i \in 1..n |-> [PlayerRated(75) EXCEPT ![attr] = vs[i]]] :
              vs \in [1..n -> values]} : n \in 0..MaxSquadLen}

\* normalized requirements handed directly to selectOptimalRarity
RarityRequirements ==
    {parseRequirements(Object([EmptyObject EXCEPT !.players = Num(1), !.chemistry = Num(10),
                                                  !.rating = Num(r), !.rarities = q])) :
       r \in MinCostRating..MaxCostRating, q \in RaritiesValues}

\* arguments of the calls of a session
SessionArguments ==
    {Value("null"),
     Object([EmptyObject EXCEPT !.players = Num(1), !.chemistry = Num(0)]),
     Object([EmptyObject EXCEPT !.players = Num(2), !.chemistry = Num(10)]),
     Object([EmptyObject EXCEPT !.players = Num(3), !.chemistry = Num(10),
                                !.leagues = Arr(<<"La Liga", "Serie A">>)])}

SessionSbcTypes == {"daily_silver", "82_plus_pick", "not_a_real_preset"}

\* squads handed directly to calculateChemistry: players of two leagues,
\* two nations and two clubs
LinkedPlayers ==
    {[PlayerRated(75) EXCEPT !.league = l, !.nation = n, !.club = k, !.chemistry = 0] :
       l \in {"Premier League", "La Liga"}, n \in {"England", "Spain"},
       k \in {"Manchester City", "Arsenal"}}

LinkedSquads == UNION {[1..n -> LinkedPlayers] : n \in 0..MaxSquadLen}

SbcTypes ==
    DOMAIN commonSBCs \cup {"not_a_real_preset", "constructor", "toString", "__proto__"}

(***************************************************************************)
(* The state machine: a caller invokes one method of a solver, the method  *)
(* runs to completion, the caller takes the result and may call again.     *)
(***************************************************************************)
NoCall == [op |-> "none"]
NoResult == [kind |-> "none"]

\* what a session of calls has seen so far: the calls made, the solvers
\* constructed, the calls made on the current solver, the player objects of
\* each returned squad, and the result each argument gave as the first call
\* on a newly constructed solver
NoHistory ==
    [calls |-> 0, solvers |-> 1, onSolver |-> 0, squads |-> <<>>,
     freshSolve |-> [a \in {} |-> NoResult], freshQuick |-> [a \in {} |-> NoResult]]

Init ==
    /\ pc = "idle"
    /\ call = NoCall
    /\ result = NoResult
    /\ consoleOut = <<>>
    /\ playerDatabase = constructor
    /\ allocated = 0
    /\ history = NoHistory
    /\ document = {}
    /\ cache = <<>>
    /\ observers = <<>>
    /\ mutationObservers = <<>>
    /\ waits = <<>>

\* variant: a call reorders the league table (leagues.push(leagues.shift()))
databaseAfterCallRotated(db) ==
    [db EXCEPT !.leagues = Append(Tail(@), Head(@))]

\* this.playerDatabase after a method has run: no method writes to it
databaseAfterCall(db) == db

\* a method returns: its argument is as it was handed in
Returns(op, arg, outcome) ==
    /\ pc' = "returned"
    /\ call' = [op |-> op, arg |-> arg]
    /\ result' = [kind |-> outcome.kind, val |-> outcome.val]
    /\ consoleOut' = outcome.console
    /\ playerDatabase' = databaseAfterCall(playerDatabase)
    /\ UNCHANGED domVars

Return(op, arg, outcome) ==
    /\ Returns(op, arg, outcome)
    /\ UNCHANGED <<allocated, history>>

Solve ==
    /\ pc = "idle"
    /\ \E sbcRequirements \in Arguments :
         Return("solve", sbcRequirements, solveSBCRequirements(sbcRequirements))

QuickSolve ==
    /\ pc = "idle"
    /\ \E sbcType \in SbcTypes :
         Return("quickSolve", sbcType, quickSolve(sbcType))

CalculateSquadRating ==
    /\ pc = "idle"
    /\ \E squad \in Squads :
         Return("calculateSquadRating", squad,
                [kind |-> "return", val |-> calculateSquadRating(squad), console |-> <<>>])

CheckRequirements ==
    /\ pc = "idle"
    /\ \E parsedReqs \in CheckedRequirements :
         \E solution \in CheckedSolutions(parsedReqs) :
           Return("checkRequirements", [solution |-> solution, parsedReqs |-> parsedReqs],
                  [kind |-> "return", val |-> checkRequirements(solution, parsedReqs),
                   console |-> <<>>])

EstimatePlayerCost ==
    /\ pc = "idle"
    /\ \E player \in CostedPlayers :
         Return("estimatePlayerCost", player,
                [kind |-> "return", val |-> estimatePlayerCost(player), console |-> <<>>])

ParseRequirements ==
    /\ pc = "idle"
    /\ \E o \in ParsedObjects :
         Return("parseRequirements", Object(o),
                [kind |-> "return", val |-> parseRequirements(Object(o)), console |-> <<>>])

CalculateRequiredRating ==
    /\ pc = "idle"
    /\ \E parsedReqs \in SlotRequirements :
         \E currentSquad \in PartialSquads(parsedReqs) :
           Return("calculateRequiredRating",
                  [parsedReqs |-> parsedReqs, currentSquad |-> currentSquad],
                  [kind |-> "return",
                   val |-> calculateRequiredRating(parsedReqs, currentSquad),
                   console |-> <<>>])

SelectOptimalLeague ==
    /\ pc = "idle"
    /\ \E parsedReqs \in SelectRequirements :
         \E currentSquad \in SquadsWith("league", {"Premier League", "La Liga", "MLS"}) :
           Return("selectOptimalLeague",
                  [parsedReqs |-> parsedReqs, currentSquad |-> currentSquad],
                  [kind |-> "return", val |-> selectOptimalLeague(parsedReqs, currentSquad),
                   console |-> <<>>])

SelectOptimalNation ==
    /\ pc = "idle"
    /\ \E parsedReqs \in SelectRequirements :
         \E currentSquad \in SquadsWith("nation", {"England", "Spain", "Japan"}) :
           Return("selectOptimalNation",
                  [parsedReqs |-> parsedReqs, currentSquad |-> currentSquad],
                  [kind |-> "return", val |-> selectOptimalNation(parsedReqs, currentSquad),
                   console |-> <<>>])

SelectOptimalClub ==
    /\ pc = "idle"
    /\ \E parsedReqs \in SelectRequirements :
         \E currentSquad \in SquadsWith("club", {"Manchester City", "Arsenal", "Chelsea"}) :
           Return("selectOptimalClub",
                  [parsedReqs |-> parsedReqs, currentSquad |-> currentSquad],
                  [kind |-> "return", val |-> selectOptimalClub(parsedReqs, currentSquad),
                   console |-> <<>>])

SelectOptimalRarity ==
    /\ pc = "idle"
    /\ \E parsedReqs \in RarityRequirements :
         Return("selectOptimalRarity", parsedReqs,
                [kind |-> "return", val |-> selectOptimalRarity(parsedReqs), console |-> <<>>])

CalculateChemistry ==
    /\ pc = "idle"
    /\ \E squad \in LinkedSquads :
         Return("calculateChemistry", squad,
                [kind |-> "return",
                 val |-> calculateChemistry(squad, parseRequirements(Object(EmptyObject))),
                 console |-> <<>>])

OptimizeSolution ==
    /\ pc = "idle"
    /\ \E parsedReqs \in CheckedRequirements :
         \E solution \in CheckedSolutions(parsedReqs) :
           Return("optimizeSolution", [solution |-> solution, parsedReqs |-> parsedReqs],
                  [kind |-> "return", val |-> optimizeSolution(solution, parsedReqs),
                   console |-> <<>>])

\* the caller has taken the result
Resume ==
    /\ pc = "returned"
    /\ pc' = "idle"
    /\ call' = NoCall
    /\ result' = NoResult
    /\ consoleOut' = <<>>
    /\ UNCHANGED <<playerDatabase, allocated, history>>
    /\ UNCHANGED domVars

(***************************************************************************)
(* Sessions: sequences of solve and quickSolve calls on one solver or on    *)
(* several, with the identity of the player objects.  findOptimalPlayer    *)
(* creates one new object per slot; objects are numbered as created.       *)
(***************************************************************************)
PlayersCreated(outcome) ==
    IF "squad" \in DOMAIN outcome.val THEN Len(outcome.val.squad) ELSE 0

SessionReturn(op, arg, outcome) ==
    /\ history.calls < MaxCalls
    /\ Returns(op, arg, outcome)
    /\ allocated' = allocated + PlayersCreated(outcome)
    /\ LET returned == [kind |-> outcome.kind, val |-> outcome.val]
           fresh == history.onSolver = 0
       IN history' =
            [history EXCEPT
               !.calls = @ + 1,
               !.onSolver = @ + 1,
               !.squads = Append(@, (allocated + 1)..(allocated + PlayersCreated(outcome))),
               !.freshSolve = IF op = "solve" /\ fresh /\ arg \notin DOMAIN @
                              THEN @ @@ (arg :> returned) ELSE @,
               !.freshQuick = IF op = "quickSolve" /\ fresh /\ arg \notin DOMAIN @
                              THEN @ @@ (arg :> returned) ELSE @]

SessionSolve ==
    /\ pc = "idle"
    /\ \E sbcRequirements \in SessionArguments :
         SessionReturn("solve", sbcRequirements, solveSBCRequirements(sbcRequirements))

SessionQuickSolve ==
    /\ pc = "idle"
    /\ \E sbcType \in SessionSbcTypes :
         SessionReturn("quickSolve", sbcType, quickSolve(sbcType))

\* new SBCSolver(): the next calls run on a newly constructed solver
SessionNewSolver ==
    /\ pc = "idle"
    /\ history.solvers < MaxSolvers
    /\ history.onSolver > 0
    /\ playerDatabase' = constructor
    /\ history' = [history EXCEPT !.solvers = @ + 1, !.onSolver = 0]
    /\ UNCHANGED <<pc, call, result, consoleOut, allocated>>
    /\ UNCHANGED domVars

SessionNext == SessionSolve \/ SessionQuickSolve \/ SessionNewSolver \/ Resume

SessionSpec == Init /\ [][SessionNext]_vars

Next == Solve \/ QuickSolve \/ CalculateSquadRating \/ CheckRequirements \/ EstimatePlayerCost \/ ParseRequirements \/ CalculateRequiredRating \/ SelectOptimalLeague \/ SelectOptimalNation \/ SelectOptimalClub \/ SelectOptimalRarity \/ CalculateChemistry \/ OptimizeSolution \/ Resume

Spec == Init /\ [][Next]_vars

(***************************************************************************)
(* DOMUtils on one page.  document is the set of selectors that match an   *)
(* element; a Map is a function on the set of its keys; mutationObservers  *)
(* holds every MutationObserver, named by the waitForElement call that     *)
(* created it (its owner) and the round of that call, with whether it is   *)
(* observing and whether records are queued for it; in a closure, observer *)
(* is the round of the observer it holds, 0 for undefined; waits holds the *)
(* closure of every waitForElement call and the state of its promise.      *)
(* Every action is one task or callback of the event loop and runs to      *)
(* completion; a timer fires only when no observer callback is queued      *)
(* (microtasks run first).                                                 *)
(***************************************************************************)
\* the selectors waited for and queried; calls for different selectors share
\* no entry of the observers map
Selectors == {"#a"}

NoValue == [kind |-> "none"]

MapSet(map, key, value) ==
    [k \in DOMAIN map \cup {key} |-> IF k = key THEN value ELSE map[k]]

MapDelete(map, key) == [k \in DOMAIN map \ {key} |-> map[k]]

\* the instance state that the closures of waitForElement work on
DomState == [waits |-> waits, observers |-> observers,
             mutationObservers |-> mutationObservers]

\* observer.disconnect(): stops observing and drops the queued records
disconnect(observer) == [observer EXCEPT !.connected = FALSE, !.records = FALSE]

\* resolve / reject of the promise of call i: only the first one settles it
resolve(D, i, how) ==
    [D EXCEPT !.waits[i] =
        [@ EXCEPT !.status = IF @ = "pending" THEN "resolved" ELSE @,
                  !.value = IF D.waits[i].status = "pending"
                            THEN [kind |-> "element", selector |-> D.waits[i].selector]
                            ELSE @,
                  !.foundAt = IF D.waits[i].status = "pending" THEN how ELSE @,
                  !.settles = @ + 1]]

reject(D, i) ==
    [D EXCEPT !.waits[i] =
        [@ EXCEPT !.status = IF @ = "pending" THEN "rejected" ELSE @,
                  !.value = IF D.waits[i].status = "pending"
                            THEN [kind |-> "error",
                                  message |-> Msg("Element not found after ${} retries: ${}",
                                                  <<D.waits[i].retries, D.waits[i].selector>>)]
                            ELSE @,
                  !.settles = @ + 1]]

\* variant: the round timeout is not cleared
closureCleanupKeepsTimeout(D, i) ==
    LET w == D.waits[i]
    IN IF w.observer # 0
       THEN [D EXCEPT !.mutationObservers[<<i, w.observer>>] = disconnect(@),
                      !.observers = MapDelete(@, w.selector)]
       ELSE D

\* the closure cleanup of call i
closureCleanup(D, i) ==
    LET w == D.waits[i]
        D1 == IF w.observer # 0
              THEN [D EXCEPT !.mutationObservers[<<i, w.observer>>] = disconnect(@),
                             !.observers = MapDelete(@, w.selector)]
              ELSE D
    IN IF w.timeoutId = "pending"
       THEN [D1 EXCEPT !.waits[i].timeoutId = "cleared"]
       ELSE D1

attemptFind(D, i, how) ==
    IF D.waits[i].selector \in document
    THEN resolve(closureCleanup(D, i), i, how)
    ELSE D

\* Math.min(1000, 200 * Math.pow(2, retryCount - 1))
backoffDelay(retryCount) == Min(1000, 200 * 2 ^ (retryCount - 1))

retryWithObserver(D, i) ==
    LET w == D.waits[i]
    IN IF w.retryCount >= w.retries
       THEN reject(closureCleanup(D, i), i)
       ELSE LET D1 == [D EXCEPT !.waits[i].retryCount = @ + 1]
                \* the observer of this round
                observer == w.retryCount + 1
            IN IF w.selector \in document
               THEN attemptFind(D1, i, "retry")
               ELSE [D1 EXCEPT
                       !.mutationObservers =
                           MapSet(@, <<i, observer>>,
                                  [owner |-> i, connected |-> TRUE, records |-> FALSE]),
                       !.observers = MapSet(@, w.selector, <<i, observer>>),
                       !.waits[i].observer = observer,
                       !.waits[i].timeoutId = "pending"]

\* the state after a closure has run
Becomes(D) ==
    /\ waits' = D.waits
    /\ observers' = D.observers
    /\ mutationObservers' = D.mutationObservers

\* waitForElement(selector, {retries}): the executor of the promise
WaitForElement ==
    /\ Len(waits) < MaxWaits
    /\ \E selector \in Selectors, retries \in 0..MaxRetries :
         LET i == Len(waits) + 1
             fresh == [selector |-> selector, retries |-> retries, retryCount |-> 0,
                       observer |-> 0, timeoutId |-> "undefined", backoff |-> 0,
                       status |-> "pending", value |-> NoValue, foundAt |-> "none",
                       settles |-> 0]
             D == [DomState EXCEPT !.waits = Append(@, fresh)]
         IN IF selector \in document
            THEN Becomes(resolve(D, i, "initial"))
            ELSE Becomes(retryWithObserver(D, i))
    /\ UNCHANGED <<document, cache>>
    /\ UNCHANGED solverVars

\* a script changes the page: an element matching the selector appears or
\* goes.  A change of the child list queues a record for every observer
\* that is observing; a change of an attribute does not (attributes: false).
Mutation ==
    /\ \E selector \in Selectors, childList \in BOOLEAN :
         /\ document' = IF selector \in document THEN document \ {selector}
                        ELSE document \cup {selector}
         /\ mutationObservers' =
              [o \in DOMAIN mutationObservers |->
                 IF childList /\ mutationObservers[o].connected
                 THEN [mutationObservers[o] EXCEPT !.records = TRUE]
                 ELSE mutationObservers[o]]
    /\ UNCHANGED <<cache, observers, waits>>
    /\ UNCHANGED solverVars

\* no observer callback is queued
Drained == \A o \in DOMAIN mutationObservers : ~mutationObservers[o].records

\* the queued callbacks run in one microtask.  The callback of a call
\* touches its own closure, its own observer and the map entry of its
\* selector only, so the callbacks of the batch are taken call by call.
ObserverCallback ==
    /\ ~Drained
    /\ LET taken == [DomState EXCEPT
                       !.mutationObservers = [o \in DOMAIN @ |-> [@[o] EXCEPT !.records = FALSE]]]
           called(i) ==
               IF \E o \in DOMAIN mutationObservers :
                    mutationObservers[o].owner = i /\ mutationObservers[o].records
               THEN attemptFind(taken, i, "observer")
               ELSE taken
       IN /\ waits' = [i \in 1..Len(waits) |-> called(i).waits[i]]
          /\ mutationObservers' =
               [o \in DOMAIN mutationObservers |->
                  called(mutationObservers[o].owner).mutationObservers[o]]
          /\ observers' =
               [k \in {k \in DOMAIN observers :
                         \A i \in 1..Len(waits) : k \in DOMAIN called(i).observers}
                  |-> observers[k]]
    /\ UNCHANGED <<document, cache>>
    /\ UNCHANGED solverVars

\* the timeout of a round of call i fires
RoundTimeout(i) ==
    /\ waits[i].timeoutId = "pending"
    /\ Drained
    /\ LET w == waits[i]
           D == IF w.observer # 0
                THEN [DomState EXCEPT !.mutationObservers[<<i, w.observer>>] = disconnect(@),
                                      !.observers = MapDelete(@, w.selector)]
                ELSE DomState
       IN Becomes([D EXCEPT !.waits[i].timeoutId = "fired",
                            !.waits[i].backoff = backoffDelay(w.retryCount)])
    /\ UNCHANGED <<document, cache>>
    /\ UNCHANGED solverVars

\* the backoff timer of call i fires: the next round
RetryTimer(i) ==
    /\ waits[i].backoff > 0
    /\ Drained
    /\ Becomes(retryWithObserver([DomState EXCEPT !.waits[i].backoff = 0], i))
    /\ UNCHANGED <<document, cache>>
    /\ UNCHANGED solverVars

Timeout == \E i \in 1..Len(waits) : RoundTimeout(i)

Retry == \E i \in 1..Len(waits) : RetryTimer(i)

\* queryCached(selector, {useCache}); expired tells whether the entry is
\* older than invalidateAfter
queryCached(selector, useCache, expired) ==
    LET cacheKey == selector \o ":document"
        elements == IF selector \in document THEN <<selector>> ELSE <<>>
    IN IF useCache /\ cacheKey \in DOMAIN cache /\ ~expired
       THEN cache
       ELSE IF useCache THEN MapSet(cache, cacheKey, [elements |-> elements])
       ELSE cache

QueryCached ==
    /\ \E selector \in Selectors, useCache \in BOOLEAN, expired \in BOOLEAN :
         cache' = queryCached(selector, useCache, expired)
    /\ UNCHANGED <<document, observers, mutationObservers, waits>>
    /\ UNCHANGED solverVars

\* cleanup() of the instance: the observers in the map are disconnected
cleanup(D) ==
    [D EXCEPT !.mutationObservers =
                 [o \in DOMAIN @ |->
                    IF \E k \in DOMAIN D.observers : D.observers[k] = o
                    THEN disconnect(@[o]) ELSE @[o]],
              !.observers = <<>>]

Cleanup ==
    /\ Becomes(cleanup(DomState))
    /\ cache' = <<>>
    /\ UNCHANGED document
    /\ UNCHANGED solverVars

\* timers fire and queued callbacks run
DomFairness ==
    /\ WF_vars(ObserverCallback)
    /\ SF_vars(Timeout)
    /\ SF_vars(Retry)

\* pending waitForElement calls and cleanup() on a changing page
WaitNext == WaitForElement \/ Mutation \/ ObserverCallback \/ Timeout \/ Retry \/ Cleanup

WaitSpec == Init /\ [][WaitNext]_vars /\ DomFairness

\* the same with the query cache in use
DomNext ==
    WaitForElement \/ Mutation \/ ObserverCallback \/ Timeout \/ Retry \/ Cleanup \/ QueryCached

DomSpec == Init /\ [][DomNext]_vars

(***************************************************************************)
(* Properties.                                                             *)
(***************************************************************************)
Solved == pc = "returned" /\ call.op = "solve"
QuickSolved == pc = "returned" /\ call.op = "quickSolve"

\* the requirements a solve or quickSolve call works on
RequirementsOf(c) == IF c.op = "solve" THEN c.arg ELSE ReadPreset(c.arg)

\* the call returned a solution, not an error
NonError ==
    /\ Solved \/ QuickSolved
    /\ result.kind = "return"
    /\ "squad" \in DOMAIN result.val

InvalidError == [error |-> "Invalid SBC requirements provided", success |-> FALSE]

\* C1: for every requirements object that solve accepts, the squad of the
\* result has exactly as many players as the normalized squad size (or the
\* result is a structured error).
C1_SquadLength ==
    (Solved /\ validateRequirements(call.arg)) =>
        /\ result.kind = "return"
        /\ \/ "error" \in DOMAIN result.val
           \/ Len(result.val.squad) = parseRequirements(call.arg).squadSize.v

\* C2: every non-error result of solve and quickSolve carries a success flag
\* equal to the outcome of checkRequirements.
C2_SuccessFlag ==
    NonError =>
        /\ "success" \in DOMAIN result.val
        /\ result.val.success =
             checkRequirements(result.val, parseRequirements(RequirementsOf(call))).success

\* C3: solve returns a value for every argument and lets no exception
\* escape; when validation fails the value is exactly {error, success: false}
\* with no squad, and every error result has exactly that shape.
C3_NeverThrows ==
    Solved =>
        /\ result.kind = "return"
        /\ ~validateRequirements(call.arg) => result.val = InvalidError
        /\ "error" \in DOMAIN result.val =>
             /\ DOMAIN result.val = {"error", "success"}
             /\ result.val.success = FALSE

C3_Witness ==
    /\ Solved
    /\ call.arg.kind = "array"
    /\ result.kind = "return"
    /\ result.val = InvalidError

\* C4: solve returns the invalid-requirements error exactly when the
\* argument is not an object or lacks the key players or the key chemistry;
\* with both keys present the input is accepted whatever their values, and a
\* null, undefined or 0 value is defaulted (11 players, chemistry 100).
C4_PresenceOnly ==
    Solved =>
        LET rejected == \/ call.arg.kind \notin {"object", "array"}
                        \/ call.arg.o.players.t = "absent"
                        \/ call.arg.o.chemistry.t = "absent"
        IN /\ result.kind = "return"
           /\ rejected <=> result.val = InvalidError
           /\ ~rejected =>
                /\ "squad" \in DOMAIN result.val
                /\ call.arg.o.players \in {Null, Undefined, Num(0)} =>
                     Len(result.val.squad) = 11
                /\ call.arg.o.chemistry \in {Null, Undefined, Num(0)} =>
                     parseRequirements(call.arg).minChemistry = Num(100)

C4_Witness ==
    /\ Solved
    /\ call.arg.kind = "object"
    /\ call.arg.o.players = Null
    /\ call.arg.o.chemistry = Num(0)
    /\ result.kind = "return"
    /\ "squad" \in DOMAIN result.val
    /\ Len(result.val.squad) = 11

\* C5: for every name that is not one of the five presets quickSolve returns
\* {error: 'Unknown SBC type: <name>', success: false} without running solve;
\* for each of the five names it returns what solve returns for the preset.
C5_UnknownPreset ==
    QuickSolved =>
        IF call.arg \in DOMAIN commonSBCs
        THEN LET solved == solveSBCRequirements(Object(commonSBCs[call.arg]))
             IN result = [kind |-> solved.kind, val |-> solved.val]
        ELSE /\ result.kind = "return"
             /\ result.val = [error |-> "Unknown SBC type: " \o call.arg, success |-> FALSE]
             /\ consoleOut = <<>>

\* C6: for each preset that names a rarity (daily_silver names silver),
\* quickSolve returns a squad of exactly 11 players, each of that rarity.
C6_PresetRarity ==
    (QuickSolved /\ call.arg \in DOMAIN commonSBCs
       /\ commonSBCs[call.arg].rarities.t = "array") =>
        /\ result.kind = "return"
        /\ "squad" \in DOMAIN result.val
        /\ Len(result.val.squad) = 11
        /\ \A i \in 1..Len(result.val.squad) :
             result.val.squad[i].rarity = commonSBCs[call.arg].rarities.v[1]

C6_Witness ==
    /\ QuickSolved
    /\ call.arg = "daily_silver"
    /\ result.kind = "return"
    /\ Len(result.val.squad) = 11
    /\ result.val.squad[11].rarity = "silver"

MinimalInput == Object([EmptyObject EXCEPT !.players = Num(1), !.chemistry = Num(0)])

\* C7: solve({players: 1, chemistry: 0}) returns a non-error result with
\* exactly one player, of chemistry 10 and rating 75; totalChemistry is 10
\* and totalRating is 75.
C7_MinimalInput ==
    (Solved /\ call.arg = MinimalInput) =>
        /\ result.kind = "return"
        /\ "squad" \in DOMAIN result.val
        /\ Len(result.val.squad) = 1
        /\ result.val.squad[1].chemistry = 10
        /\ result.val.squad[1].rating = 75
        /\ result.val.totalChemistry = 10
        /\ result.val.totalRating = 75

C7_Witness ==
    /\ Solved
    /\ call.arg = MinimalInput
    /\ result.kind = "return"
    /\ Len(result.val.squad) = 1

\* C8: in every non-error result with N players each player's chemistry is
\* in 0..10, and totalChemistry is in 0..10*N and is the sum of the players'
\* chemistry values.
C8_ChemistryRange ==
    NonError =>
        LET squad == result.val.squad
        IN /\ \A i \in 1..Len(squad) : squad[i].chemistry \in 0..10
           /\ result.val.totalChemistry \in 0..(10 * Len(squad))
           /\ result.val.totalChemistry =
                SumSeq([i \in 1..Len(squad) |-> squad[i].chemistry])

\* a squad whose players have league, nation and club links
C8_Witness ==
    /\ NonError
    /\ Len(result.val.squad) = 11
    /\ Links(result.val.squad, 1, "league") = 10
    /\ result.val.totalChemistry = 110

\* C9: for a non-empty squad of integer ratings calculateSquadRating is the
\* mean rounded to the nearest integer, halves up, that is the integer r
\* with r <= mean + 1/2 < r + 1; for an empty squad it is 0.
C9_RoundedMean ==
    (pc = "returned" /\ call.op = "calculateSquadRating") =>
        LET n == Len(call.arg)
            total == SumSeq(Ratings(call.arg))
            r == result.val
        IN IF n = 0 THEN r = 0
           ELSE /\ 2 * n * r <= 2 * total + n
                /\ 2 * total + n < 2 * n * (r + 1)

\* ratings [70, 71] give 71
C9_Witness ==
    /\ pc = "returned"
    /\ call.op = "calculateSquadRating"
    /\ Ratings(call.arg) = <<70, 71>>
    /\ result.val = 71

\* C10: checkRequirements reports success exactly when all four sub-checks
\* hold: totalChemistry >= minChemistry, totalRating >= minRating,
\* totalCost <= maxCost and squad length = squadSize, each inclusive.
C10_AllFourChecks ==
    (pc = "returned" /\ call.op = "checkRequirements") =>
        LET s == call.arg.solution
            q == call.arg.parsedReqs
        IN result.val.success <=>
             /\ s.totalChemistry >= q.minChemistry.v
             /\ s.totalRating >= q.minRating.v
             /\ s.totalCost <= q.maxCost.v
             /\ Len(s.squad) = q.squadSize.v

\* every comparison at its boundary
C10_Witness ==
    /\ pc = "returned"
    /\ call.op = "checkRequirements"
    /\ call.arg.solution.totalChemistry = call.arg.parsedReqs.minChemistry.v
    /\ call.arg.solution.totalRating = call.arg.parsedReqs.minRating.v
    /\ call.arg.solution.totalCost = call.arg.parsedReqs.maxCost.v
    /\ Len(call.arg.solution.squad) = call.arg.parsedReqs.squadSize.v
    /\ result.val.success


\* C11: for a fixed rarity and position, estimatePlayerCost at a rating r1
\* is at most estimatePlayerCost at every rating r2 >= r1.
C11_CostMonotone ==
    (pc = "returned" /\ call.op = "estimatePlayerCost") =>
        \A r1 \in MinCostRating..call.arg.rating :
            estimatePlayerCost([call.arg EXCEPT !.rating = r1]) <= result.val

\* silver ST: rating 90 costs 1040, rating 70 costs 520
C11_Witness ==
    /\ pc = "returned"
    /\ call.op = "estimatePlayerCost"
    /\ call.arg.rating = 90
    /\ call.arg.rarity = "silver"
    /\ call.arg.position = "ST"
    /\ result.val = 1040
    /\ estimatePlayerCost([call.arg EXCEPT !.rating = 70]) = 520


Elements(list) == {list[i] : i \in 1..Len(list)}

\* C12: in every non-error result, for each of league, nation, club and
\* rarity: if the constraint set of the requirements for that attribute is
\* non-empty, every player's value of the attribute is a member of the set.
C12_ConstraintMembership ==
    NonError =>
        LET constraints == parseRequirements(RequirementsOf(call)).constraints
            squad == result.val.squad
        IN \A i \in 1..Len(squad) :
             /\ constraints.leagues.v # <<>> =>
                  squad[i].league \in Elements(constraints.leagues.v)
             /\ constraints.nations.v # <<>> =>
                  squad[i].nation \in Elements(constraints.nations.v)
             /\ constraints.clubs.v # <<>> =>
                  squad[i].club \in Elements(constraints.clubs.v)
             /\ constraints.rarities.v # <<>> =>
                  squad[i].rarity \in Elements(constraints.rarities.v)

\* a squad built under all four constraints
C12_Witness ==
    /\ Solved
    /\ result.kind = "return"
    /\ "squad" \in DOMAIN result.val
    /\ call.arg.o.leagues = Arr(<<"La Liga", "Serie A">>)
    /\ call.arg.o.nations = Arr(<<"Spain">>)
    /\ call.arg.o.clubs = Arr(<<"Arsenal">>)
    /\ call.arg.o.rarities = Arr(<<"gold">>)
    /\ Len(result.val.squad) = 11
    /\ result.val.squad[11].league = "La Liga"


\* C13: every record that normalization produces from an accepted input has
\* squad size > 0 and minimum chemistry within 0..100, so the builder never
\* runs on a record outside these bounds.
C13_NormalizedBounds ==
    (Solved /\ validateRequirements(call.arg)) =>
        LET parsedReqs == parseRequirements(call.arg)
        IN /\ parsedReqs.squadSize.v > 0
           /\ parsedReqs.minChemistry.v \in 0..100

\* C14: for an accepted input every absent optional field is normalized to
\* its default: minimum rating 75, maximum cost 50000, empty league, nation,
\* club and rarity sets, null for each of the five distribution limits; no
\* field of the normalized record is undefined.
C14_Defaults ==
    (pc = "returned" /\ call.op = "parseRequirements") =>
        LET o == call.arg.o
            parsed == result.val
            limits == DOMAIN parsed.special
            lists == {"leagues", "nations", "clubs", "rarities"}
        IN /\ o.rating.t = "absent" => parsed.minRating = Num(75)
           /\ o.maxCost.t = "absent" => parsed.maxCost = Num(50000)
           /\ \A f \in lists : o[f].t = "absent" => parsed.constraints[f] = Arr(<<>>)
           /\ limits = {"maxSameLeague", "maxSameNation", "maxSameClub",
                        "minDifferentLeagues", "minDifferentNations"}
           /\ \A f \in limits : o[f].t = "absent" => parsed.special[f] = Null
           /\ \A f \in {"squadSize", "minChemistry", "minRating", "maxCost"} :
                parsed[f].t \notin {"undefined", "absent"}
           /\ \A f \in DOMAIN parsed.constraints :
                parsed.constraints[f].t \notin {"undefined", "absent"}
           /\ \A f \in limits : parsed.special[f].t \notin {"undefined", "absent"}

\* only the two mandatory keys supplied
C14_Witness ==
    /\ pc = "returned"
    /\ call.op = "parseRequirements"
    /\ call.arg.o = [EmptyObject EXCEPT !.players = Num(1), !.chemistry = Num(10)]
    /\ result.val.minRating = Num(75)
    /\ result.val.maxCost = Num(50000)
    /\ result.val.special.maxSameLeague = Null
    /\ result.val.constraints.leagues = Arr(<<>>)


\* C16: the slot rating is minRating for an empty partial squad; otherwise
\* it is max(minRating - 5, c) where c = ceil((minRating * squadSize - sum
\* of the ratings so far) / (squadSize - players so far)), that is the
\* least integer c with c * remaining >= needed.
C16_RequiredRating ==
    (pc = "returned" /\ call.op = "calculateRequiredRating") =>
        LET q == call.arg.parsedReqs
            squad == call.arg.currentSquad
            needed == q.minRating.v * q.squadSize.v - SumSeq(Ratings(squad))
            remaining == q.squadSize.v - Len(squad)
            r == result.val
        IN IF Len(squad) = 0 THEN r = q.minRating.v
           ELSE /\ r >= q.minRating.v - 5
                /\ r * remaining >= needed
                /\ r = q.minRating.v - 5 \/ (r - 1) * remaining < needed

\* squad size 3, minimum 75, one player of 74: ceil(151 / 2) = 76
C16_Witness ==
    /\ pc = "returned"
    /\ call.op = "calculateRequiredRating"
    /\ call.arg.parsedReqs.squadSize = Num(3)
    /\ call.arg.parsedReqs.minRating = Num(75)
    /\ Ratings(call.arg.currentSquad) = <<74>>
    /\ result.val = 76


\* C17: in every squad built for an integer squad size N >= 1 and an integer
\* minimum rating, the mean of the first k players is at least minRating for
\* every k, every player's rating equals minRating, totalRating equals
\* minRating and the rating sub-check holds.
C17_RatingsEqualMinimum ==
    (NonError /\ parseRequirements(RequirementsOf(call)).squadSize.t = "number"
              /\ parseRequirements(RequirementsOf(call)).squadSize.v >= 1) =>
        LET q == parseRequirements(RequirementsOf(call))
            squad == result.val.squad
        IN /\ \A k \in 1..Len(squad) :
                SumSeq(SubSeq(Ratings(squad), 1, k)) >= k * q.minRating.v
           /\ \A i \in 1..Len(squad) : squad[i].rating = q.minRating.v
           /\ result.val.totalRating = q.minRating.v
           /\ checkRequirements(result.val, q).checks.rating

C17_Witness ==
    /\ Solved
    /\ result.kind = "return"
    /\ "squad" \in DOMAIN result.val
    /\ call.arg.o.players = Num(11)
    /\ call.arg.o.rating = Num(82)
    /\ Len(result.val.squad) = 11
    /\ result.val.squad[11].rating = 82
    /\ result.val.totalRating = 82


\* the number of players of the squad whose attribute attr is val
Occurrences(squad, attr, val) == Cardinality({i \in DOMAIN squad : squad[i][attr] = val})

\* the rule of C18 for one attribute
MostCommonRule(constraint, squad, attr, reference, chosen) ==
    IF constraint # <<>> THEN chosen = constraint[1]
    ELSE IF squad = <<>> THEN chosen = reference
    ELSE /\ \E i \in DOMAIN squad : squad[i][attr] = chosen
         /\ \A i \in DOMAIN squad :
              Occurrences(squad, attr, chosen) >= Occurrences(squad, attr, squad[i][attr])

\* C18: league selection returns the first element of a non-empty league
\* constraint set; otherwise 'Premier League' for an empty partial squad;
\* otherwise a league with the most occurrences in the partial squad.
\* Nation selection obeys the same rule with the nation set and 'England'.
C18_MostCommon ==
    /\ (pc = "returned" /\ call.op = "selectOptimalLeague") =>
          MostCommonRule(call.arg.parsedReqs.constraints.leagues.v, call.arg.currentSquad,
                         "league", "Premier League", result.val)
    /\ (pc = "returned" /\ call.op = "selectOptimalNation") =>
          MostCommonRule(call.arg.parsedReqs.constraints.nations.v, call.arg.currentSquad,
                         "nation", "England", result.val)

\* no constraint, 'Premier League' once and before 'MLS' twice
C18_Witness ==
    /\ pc = "returned"
    /\ call.op = "selectOptimalLeague"
    /\ call.arg.parsedReqs.constraints.leagues.v = <<>>
    /\ Len(call.arg.currentSquad) = 3
    /\ call.arg.currentSquad[1].league = "Premier League"
    /\ call.arg.currentSquad[2].league = "MLS"
    /\ call.arg.currentSquad[3].league = "MLS"
    /\ result.val = "MLS"


\* C19: club selection does not depend on the partial squad: it returns the
\* first element of a non-empty club constraint set and 'Manchester City'
\* otherwise, whatever the clubs of the players already chosen.
C19_ClubFixed ==
    (pc = "returned" /\ call.op = "selectOptimalClub") =>
        LET clubs == call.arg.parsedReqs.constraints.clubs.v
        IN /\ clubs # <<>> => result.val = clubs[1]
           /\ clubs = <<>> => result.val = "Manchester City"

\* no constraint and three players of another club
C19_Witness ==
    /\ pc = "returned"
    /\ call.op = "selectOptimalClub"
    /\ call.arg.parsedReqs.constraints.clubs.v = <<>>
    /\ Len(call.arg.currentSquad) = 3
    /\ \A i \in 1..3 : call.arg.currentSquad[i].club = "Arsenal"
    /\ result.val = "Manchester City"


\* the rule of C20 for requirements q and a chosen rarity
RarityRule(q, rarity) ==
    IF q.constraints.rarities.v # <<>>
    THEN rarity = q.constraints.rarities.v[1]
    ELSE /\ q.minRating.v >= 85 => rarity = "gold"
         /\ (q.minRating.v >= 75 /\ q.minRating.v < 85) => rarity = "silver"
         /\ q.minRating.v < 75 => rarity = "bronze"

\* C20: with an empty rarity constraint set every player's rarity is gold
\* when the minimum rating is >= 85, silver when it is >= 75 and < 85, and
\* bronze when it is < 75; with a non-empty set it is the set's first
\* element whatever the rating.
C20_RarityByRating ==
    /\ (pc = "returned" /\ call.op = "selectOptimalRarity") =>
          RarityRule(call.arg, result.val)
    /\ NonError =>
          \A i \in 1..Len(result.val.squad) :
             RarityRule(parseRequirements(RequirementsOf(call)), result.val.squad[i].rarity)

\* a squad built for minimum rating 85 without a rarity constraint
C20_Witness ==
    /\ Solved
    /\ result.kind = "return"
    /\ "squad" \in DOMAIN result.val
    /\ call.arg.o.rating = Num(85)
    /\ call.arg.o.rarities = AbsentList
    /\ Len(result.val.squad) = 11
    /\ \A i \in 1..11 : result.val.squad[i].rarity = "gold"


C21_Base(rarity) ==
    CASE rarity = "silver" -> 400
      [] rarity = "gold" -> 800
      [] OTHER -> 150

C21_Multiplier(position) ==
    CASE position = "GK" -> 12
      [] position = "ST" -> 13
      [] position = "CAM" -> 12
      [] position = "CM" -> 11
      [] OTHER -> 10

\* C21: estimatePlayerCost is base * max(1, (rating - 70) / 10) * multiplier
\* rounded to the nearest integer, with base 150 / 400 / 800 for bronze /
\* silver / gold (150 for any other rarity) and multiplier 1.2 GK, 1.3 ST,
\* 1.2 CAM, 1.1 CM, 1.0 otherwise; the result is a non-negative integer.
C21_CostFormula ==
    (pc = "returned" /\ call.op = "estimatePlayerCost") =>
        LET p == call.arg
            \* the unrounded cost times 100
            x == C21_Base(p.rarity) * (IF p.rating - 70 > 10 THEN p.rating - 70 ELSE 10)
                   * C21_Multiplier(p.position)
            c == result.val
        IN /\ c \in Nat
           /\ 200 * c <= 2 * x + 100
           /\ 2 * x + 100 < 200 * (c + 1)

\* bronze ST rated 81: 150 * 1.1 * 1.3 = 214.5, rounded to 215
C21_Witness ==
    /\ pc = "returned"
    /\ call.op = "estimatePlayerCost"
    /\ call.arg.rarity = "bronze"
    /\ call.arg.position = "ST"
    /\ call.arg.rating = 81
    /\ result.val = 215

\* C22: for every squad, whatever the leagues, nations and clubs of its
\* players, calculateChemistry gives every player exactly 10 and returns 10
\* times the squad length; in a built solution the chemistry sub-check
\* holds exactly when 10 * N >= minChemistry.
C22_ChemistryAlwaysTen ==
    /\ (pc = "returned" /\ call.op = "calculateChemistry") =>
          /\ \A i \in 1..Len(result.val.squad) : result.val.squad[i].chemistry = 10
          /\ Len(result.val.squad) = Len(call.arg)
          /\ result.val.total = 10 * Len(call.arg)
    /\ NonError =>
          LET q == parseRequirements(RequirementsOf(call))
          IN /\ \A i \in 1..Len(result.val.squad) : result.val.squad[i].chemistry = 10
             /\ result.val.totalChemistry = 10 * Len(result.val.squad)
             /\ checkRequirements(result.val, q).checks.chemistry
                   <=> 10 * Len(result.val.squad) >= q.minChemistry.v

\* three players without any link between the first and the others
C22_Witness ==
    /\ pc = "returned"
    /\ call.op = "calculateChemistry"
    /\ Len(call.arg) = 3
    /\ Links(call.arg, 1, "league") = 0
    /\ Links(call.arg, 1, "nation") = 0
    /\ Links(call.arg, 1, "club") = 0
    /\ Links(call.arg, 2, "club") = 1
    /\ result.val.total = 30


\* a solution that optimizeSolution has returned, through solve, quickSolve
\* or a direct call, and the normalized requirements it was given
Optimized == NonError \/ (pc = "returned" /\ call.op = "optimizeSolution")

OptimizedReqs ==
    IF call.op = "optimizeSolution" THEN call.arg.parsedReqs
    ELSE parseRequirements(RequirementsOf(call))

FixedTips ==
    <<Msg("Use loyalty glitch for +1 chemistry per player", <<>>),
      Msg("Consider position change cards if needed", <<>>),
      Msg("Check market for price fluctuations", <<>>)>>

RelaxTip == Msg("Consider increasing budget or relaxing constraints", <<>>)
CostTip == Msg("Reduce player ratings to lower cost", <<>>)
ChemistryTip == Msg("Focus on same league/nation links", <<>>)
GeneralWarning == Msg("Solution does not meet all requirements", <<>>)

\* the four sub-checks on a returned solution, as the claims state them
ChemistryMet == result.val.totalChemistry >= OptimizedReqs.minChemistry.v
RatingMet == result.val.totalRating >= OptimizedReqs.minRating.v
CostMet == result.val.totalCost <= OptimizedReqs.maxCost.v
SizeMet ==
    /\ OptimizedReqs.squadSize.t = "number"
    /\ Len(result.val.squad) = OptimizedReqs.squadSize.v

\* C23 as stated: the strategy list of every returned solution starts with
\* the three fixed tips, in their order, and every conditional tip comes
\* after them.
C23_FixedTipsFirst ==
    Optimized =>
        LET strategy == result.val.strategy
        IN /\ Len(strategy) >= 3
           /\ SubSeq(strategy, 1, 3) = FixedTips
           /\ \A i \in 1..Len(strategy) :
                 strategy[i] \in {RelaxTip, CostTip, ChemistryTip} => i > 3

\* C23 amended: the strategy list of every returned solution holds the
\* three fixed tips exactly once, consecutively and in their order; they are
\* at the start of the list when all four checks hold and are preceded by
\* exactly the tip 'Consider increasing budget or relaxing constraints' when
\* a check fails; the cost-reduction tip and the chemistry tip come after
\* them.
C23_FixedTipsAfterRelaxTip ==
    Optimized =>
        LET strategy == result.val.strategy
            off == IF ChemistryMet /\ RatingMet /\ CostMet /\ SizeMet THEN 0 ELSE 1
        IN /\ Len(strategy) >= off + 3
           /\ SubSeq(strategy, off + 1, off + 3) = FixedTips
           /\ off = 1 => strategy[1] = RelaxTip
           /\ \A i \in 1..Len(strategy) :
                 /\ strategy[i] \in {CostTip, ChemistryTip} => i > off + 3
                 /\ strategy[i] \in Elements(FixedTips) => i \in (off + 1)..(off + 3)
                 /\ strategy[i] = RelaxTip => i = 1 /\ off = 1

\* a failed check, with both conditional tips after the fixed ones
C23_Witness ==
    /\ Optimized
    /\ ~CostMet
    /\ ~ChemistryMet
    /\ result.val.strategy = <<RelaxTip>> \o FixedTips \o <<CostTip, ChemistryTip>>

\* C24: the budget warning, which states the excess, and the
\* cost-reduction tip are present exactly when totalCost > maxCost; the
\* chemistry warning and the chemistry tip are present exactly when
\* totalChemistry < minChemistry.
C24_ConditionalWarnings ==
    Optimized =>
        LET sol == result.val
            q == OptimizedReqs
            budgetWarnings ==
                {i \in 1..Len(sol.warnings) :
                   sol.warnings[i].text = "Solution exceeds budget by ${} coins"}
            chemistryWarnings ==
                {i \in 1..Len(sol.warnings) :
                   sol.warnings[i].text = "Chemistry ${} below required ${}"}
        IN /\ (sol.totalCost > q.maxCost.v) <=> budgetWarnings # {}
           /\ (sol.totalCost > q.maxCost.v) <=> CostTip \in Elements(sol.strategy)
           /\ \A i \in budgetWarnings :
                 sol.warnings[i].args = <<sol.totalCost - q.maxCost.v>>
           /\ (sol.totalChemistry < q.minChemistry.v) <=> chemistryWarnings # {}
           /\ (sol.totalChemistry < q.minChemistry.v)
                 <=> ChemistryTip \in Elements(sol.strategy)
           /\ \A i \in chemistryWarnings :
                 sol.warnings[i].args = <<sol.totalChemistry, q.minChemistry.v>>

\* over budget by one coin while the chemistry is exactly the minimum
C24_Witness ==
    /\ Optimized
    /\ result.val.totalCost = OptimizedReqs.maxCost.v + 1
    /\ result.val.totalChemistry = OptimizedReqs.minChemistry.v
    /\ Msg("Solution exceeds budget by ${} coins", <<1>>) \in Elements(result.val.warnings)
    /\ ChemistryTip \notin Elements(result.val.strategy)

\* C25: the warnings list is empty exactly when all four checks hold, and
\* when any check fails its first entry is 'Solution does not meet all
\* requirements', also when only the rating check or only the squad-size
\* check fails.
C25_WarningsIffFailure ==
    Optimized =>
        LET met == ChemistryMet /\ RatingMet /\ CostMet /\ SizeMet
        IN /\ (result.val.warnings = <<>>) <=> met
           /\ ~met => result.val.warnings[1] = GeneralWarning

\* only the rating check fails
C25_Witness ==
    /\ Optimized
    /\ ChemistryMet /\ CostMet /\ SizeMet
    /\ ~RatingMet
    /\ result.val.warnings = <<GeneralWarning>>

\* only the squad-size check fails: a squad size given as a numeric string
C25_SizeOnly ==
    /\ Optimized
    /\ ChemistryMet /\ CostMet /\ RatingMet
    /\ ~SizeMet
    /\ result.val.warnings = <<GeneralWarning>>


\* C26: for every accepted squad size N, the formation of the result is the
\* same on every solve with that N, its sequence of position labels has
\* length N, and the i-th player of the squad has the i-th label as position.
C26_FormationLength ==
    (NonError /\ OptimizedReqs.squadSize.t = "number" /\ OptimizedReqs.squadSize.v >= 1) =>
        LET positions == result.val.formation.positions
            N == OptimizedReqs.squadSize.v
        IN /\ Len(positions) = N
           /\ Len(result.val.squad) = N
           /\ \A i \in 1..N : result.val.squad[i].position = positions[i]

\* C27: normalization keeps every supplied in-range value: players = n >= 1
\* and chemistry = c in 0..100 give squadSize = n and minChemistry = c; so
\* solve({players: 1, chemistry: 0}) passes the chemistry check and gets no
\* chemistry warning.
C27_InRangeKept ==
    /\ (pc = "returned" /\ call.op = "parseRequirements"
          /\ call.arg.players.t = "number" /\ call.arg.players.v >= 1
          /\ call.arg.chemistry.t = "number" /\ call.arg.chemistry.v \in 0..100) =>
            /\ result.val.squadSize = call.arg.players
            /\ result.val.minChemistry = call.arg.chemistry
    /\ (Solved /\ call.arg = MinimalInput) =>
            /\ NonError
            /\ ChemistryMet
            /\ OptimizedReqs.minChemistry = Num(0)
            /\ \A i \in 1..Len(result.val.warnings) :
                  result.val.warnings[i].text # "Chemistry ${} below required ${}"

\* the rating and the budget of each preset, as C28 takes them
C28_Presets ==
    ("daily_bronze" :> [rating |-> 65, budget |-> 5000]) @@
    ("daily_silver" :> [rating |-> 70, budget |-> 8000]) @@
    ("daily_gold" :> [rating |-> 75, budget |-> 12000]) @@
    ("82_plus_pick" :> [rating |-> 82, budget |-> 15000]) @@
    ("84_plus_upgrade" :> [rating |-> 84, budget |-> 25000])

\* C28: for each of the five preset names quickSolve returns a non-error
\* result whose 11-player squad meets the preset's requirements:
\* totalChemistry >= 95, totalRating >= the preset rating, totalCost <= the
\* preset budget; the warnings list is empty and the strategy list holds
\* exactly the three fixed tips.
C28_PresetsMet ==
    (QuickSolved /\ call.arg \in DOMAIN C28_Presets) =>
        /\ result.kind = "return"
        /\ "squad" \in DOMAIN result.val
        /\ "error" \notin DOMAIN result.val
        /\ Len(result.val.squad) = 11
        /\ result.val.totalChemistry >= 95
        /\ result.val.totalRating >= C28_Presets[call.arg].rating
        /\ result.val.totalCost <= C28_Presets[call.arg].budget
        /\ result.val.warnings = <<>>
        /\ result.val.strategy = FixedTips

\* the dearest preset: eleven silver players rated 84 for 6608 coins
C28_Witness ==
    /\ QuickSolved
    /\ call.arg = "84_plus_upgrade"
    /\ result.kind = "return"
    /\ result.val.totalCost = 6608
    /\ result.val.totalRating = 84
    /\ result.val.totalChemistry = 110
    /\ result.val.warnings = <<>>


\* the observers that waitForElement call i has created
CreatedBy(i) == {o \in DOMAIN mutationObservers : mutationObservers[o].owner = i}

\* the promise of call i is settled
Settled(i) == i <= Len(waits) /\ waits[i].status # "pending"

\* what C29 says of every state
C29_State ==
    \A i \in 1..Len(waits) :
      LET w == waits[i]
      IN /\ w.settles <= 1
         /\ w.status = "pending" <=> w.settles = 0
         /\ w.status # "pending" =>
              /\ \A o \in CreatedBy(i) : ~mutationObservers[o].connected
              /\ w.timeoutId # "pending"
              /\ w.backoff = 0
         /\ w.status = "resolved" =>
              /\ w.value = [kind |-> "element", selector |-> w.selector]
              /\ w.foundAt \in {"initial", "retry", "observer"}
              /\ w.foundAt = "initial" <=> w.retryCount = 0
         /\ w.status = "rejected" =>
              /\ w.value.kind = "error"
              /\ w.retryCount = w.retries
              /\ Cardinality(CreatedBy(i)) = w.retries

\* what C29 says of every step: a promise is resolved only in a step that
\* finds a matching element, and a settled promise stays as it is
C29_Step ==
    \A i \in 1..Len(waits') :
      /\ (waits'[i].status = "resolved" /\ ~Settled(i)) => waits'[i].selector \in document
      /\ Settled(i) => waits'[i].status = waits[i].status /\ waits'[i].value = waits[i].value

\* C29: waitForElement: for every schedule of DOM mutations and timer
\* firings the promise is settled at most once; with timers that eventually
\* fire it is eventually settled, resolved with a matching element if one is
\* found on the initial check, on a retry check or by the observer, and
\* otherwise rejected after `retries` observation rounds; once it is
\* settled, no observer or round timeout created by the call is active.
\* (Eventually settled: at every time there is a later time at which every
\* call made so far is settled.)
C29_SettledOnce ==
    /\ []C29_State
    /\ [][C29_Step]_vars
    /\ []<>(\A i \in 1..Len(waits) : Settled(i))

\* one call rejected after two rounds, one resolved by its observer
C29_Witness ==
    /\ Len(waits) = 2
    /\ waits[1].status = "rejected"
    /\ waits[1].retries = 2
    /\ Cardinality(CreatedBy(1)) = 2
    /\ waits[2].status = "resolved"
    /\ waits[2].foundAt = "observer"
    /\ waits[2].timeoutId = "cleared"

\* C30: for every interleaving of pending waitForElement calls on one
\* instance, two calls for the same selector included, right after cleanup()
\* returns every MutationObserver the instance has created is disconnected
\* and the observers map and the query cache are empty.
C30_CleanupDisconnectsAll ==
    [][Cleanup =>
         /\ \A o \in DOMAIN mutationObservers' : ~mutationObservers'[o].connected
         /\ observers' = <<>>
         /\ cache' = <<>>]_vars

====
